---------------------------- MODULE Spec2Model ----------------------------
(***************************************************************************)
(* Model of generate_screenshot_data.py: the FamFin screenshot fixture     *)
(* generator.  The script is one sequential pass: a startup assertion,     *)
(* a loop over 13 months that appends budget rows and transactions and     *)
(* feeds the payee tracker, then the payee list, the JSON export and the   *)
(* printed summary.                                                        *)
(*                                                                         *)
(* Value types.                                                            *)
(*   Decimal  [t |-> "Decimal", scale, coef]  the number coef / 10^scale   *)
(*   float    [t |-> "float", m]              the number m / 2^FracBits    *)
(*   str of a Decimal  [t |-> "str", scale, coef]  its fixed-point text    *)
(*   datetime [y, mo, d, h, mi]; iso() text  <<y, mo, d, h, mi, s>>        *)
(* A float is a binary number: literals such as 0.05 are not exact, every  *)
(* product and quotient is rounded to the nearest representable value,     *)
(* and str(float) is the shortest decimal text that reads back as the      *)
(* same float.  The model keeps all of that at a reduced precision.        *)
(*                                                                         *)
(* The random module is a seeded generator; the model uses a linear        *)
(* congruential generator whose seed ranges over Seeds.                    *)
(***************************************************************************)
EXTENDS Integers, Sequences, FiniteSets, TLC

\* ------------------------------------------------------------ bounds
\* Number of generator seeds explored.
NumSeeds == 8

\* ------------------------------------------------------------ floats
\* Fractional bits of the model's binary floats.
FracBits == 16

RECURSIVE Pow(_, _)
Pow(b, e) == IF e = 0 THEN 1 ELSE b * Pow(b, e - 1)

One == Pow(2, FracBits)

Abs(x) == IF x < 0 THEN -x ELSE x

\* floor(num / den) rounded to nearest, ties to even; den > 0, num any sign.
RoundDiv(num, den) ==
    LET q == num \div den
        r == num % den
    IN  IF 2 * r > den \/ (2 * r = den /\ q % 2 = 1) THEN q + 1 ELSE q

Flt(m) == [t |-> "float", m |-> m]
Dec(scale, coef) == [t |-> "Decimal", scale |-> scale, coef |-> coef]

\* A numeric literal of the source (0.88, 1.12, 20, ...) as a float:
\* the nearest representable binary value.
FloatLit(scale, coef) ==
    LET p == Pow(10, scale)
    IN  Flt((coef \div p) * One + RoundDiv((coef % p) * One, p))

\* float(Decimal)
FloatOfDecimal(v) == FloatLit(v.scale, v.coef)

FAdd(a, b) == Flt(a.m + b.m)
FSub(a, b) == Flt(a.m - b.m)

\* a * b, rounded to nearest.  |b| < 2 (a multiplier or a random() value);
\* the product is formed in two limbs so that it stays within 31 bits.
Limb == 8192
FMulNat(a, b) ==
    LET ah == a \div Limb
        al == a % Limb
        P1 == ah * b
        P0 == al * b
        sh == One \div Limb
        low == (P1 % sh) * Limb + P0
        q  == (P1 \div sh) + (low \div One)
        r  == low % One
    IN  IF 2 * r > One \/ (2 * r = One /\ q % 2 = 1) THEN q + 1 ELSE q
FMul(a, b) ==
    LET s == IF (a.m < 0) = (b.m < 0) THEN 1 ELSE -1
    IN  Flt(s * FMulNat(Abs(a.m), Abs(b.m)))

\* a / n for an int n > 0, rounded to nearest.
FDivInt(a, n) == Flt(RoundDiv(a.m, n))

\* ------------------------------------------------- str(float), Decimal
\* Digits after the point that always suffice to tell two floats apart.
RECURSIVE DigitsFor(_, _)
DigitsFor(n, p) == IF p > One THEN n ELSE DigitsFor(n + 1, p * 10)
MaxDigits == DigitsFor(0, 1)

\* The n-digit decimal fraction nearest to f / One, as a numerator of 10^n.
NearestFrac(f, n) == RoundDiv(f * Pow(5, n), Pow(2, FracBits - n))
\* Does I + cf/10^n read back (round to nearest, ties to even) as I + f/One?
ReadsBack(m, f, cf, n) ==
    LET diff == Abs(cf * Pow(2, FracBits + 1 - n) - 2 * f * Pow(5, n))
        half == Pow(5, n)
    IN  diff < half \/ (diff = half /\ m % 2 = 0)

RECURSIVE ShortestDigits(_, _, _)
ShortestDigits(m, f, n) ==
    IF n >= MaxDigits \/ ReadsBack(m, f, NearestFrac(f, n), n)
    THEN n ELSE ShortestDigits(m, f, n + 1)

\* str(v) of a non-negative float: the shortest decimal that reads back as
\* v, and of those the one nearest to v.  The result is the decimal the
\* text denotes (Decimal(str(v))).
ReprFloat(v) ==
    LET I == v.m \div One
        f == v.m % One
        n == ShortestDigits(v.m, f, 0)
    IN  Dec(n, I * Pow(10, n) + NearestFrac(f, n))

\* Faulty variant: quantize with its default rounding, ROUND_HALF_EVEN.
QuantizeHalfEven(x) ==
    IF x.scale <= 2
    THEN Dec(2, x.coef * Pow(10, 2 - x.scale))
    ELSE Dec(2, RoundDiv(x.coef, Pow(10, x.scale - 2)))

\* Decimal.quantize(Decimal("0.01"), rounding=ROUND_HALF_UP), value >= 0.
QuantizeHalfUp(x) ==
    IF x.scale <= 2
    THEN Dec(2, x.coef * Pow(10, 2 - x.scale))
    ELSE LET unit == Pow(10, x.scale - 2)
         IN  Dec(2, (x.coef + unit \div 2) \div unit)

\* Decimal(str(v)): a Decimal keeps its digits, a float gives its repr.
DecimalOfStr(v) == IF v.t = "float" THEN ReprFloat(v) ELSE Dec(v.scale, v.coef)

\* def d(v)
d(v) == QuantizeHalfUp(DecimalOfStr(v))

\* str(Decimal) and Decimal(str)
Str(x) == [t |-> "str", scale |-> x.scale, coef |-> x.coef]
ParseDecimal(s) == Dec(s.scale, s.coef)

\* def ds(v)
ds(v) == Str(d(v))

\* Decimal + Decimal
DecAdd(a, b) ==
    LET n == IF a.scale > b.scale THEN a.scale ELSE b.scale
    IN  Dec(n, a.coef * Pow(10, n - a.scale) + b.coef * Pow(10, n - b.scale))

\* ------------------------------------------------------------ tables
\* A key a dict or JSON object does not have.
Absent == "<absent>"

\* accounts (name, type, isBudget); id, sortOrder and createdAt are constant
\* text no operation reads.
accounts == <<
    [name |-> "Joint Current", type |-> "Current",     isBudget |-> TRUE],
    [name |-> "Savings",       type |-> "Savings",     isBudget |-> TRUE],
    [name |-> "Credit Card",   type |-> "Credit Card", isBudget |-> TRUE],
    [name |-> "ISA",           type |-> "Savings",     isBudget |-> FALSE],
    [name |-> "Mortgage",      type |-> "Mortgage",    isBudget |-> FALSE] >>

Header(n) == [name |-> n, isHeader |-> TRUE, isSystem |-> FALSE, parentName |-> Absent]
Leaf(n, p) == [name |-> n, isHeader |-> FALSE, isSystem |-> FALSE, parentName |-> p]

\* categories (name, isHeader, isSystem, parentName where the entry has one)
categories == <<
    [name |-> "To Budget", isHeader |-> FALSE, isSystem |-> TRUE, parentName |-> Absent],
    Header("Bills"),
    Leaf("Mortgage Payment", "Bills"), Leaf("Council Tax", "Bills"),
    Leaf("Energy", "Bills"), Leaf("Water", "Bills"), Leaf("Internet", "Bills"),
    Leaf("Mobile Phones", "Bills"), Leaf("Insurance", "Bills"),
    Header("Living"),
    Leaf("Groceries", "Living"), Leaf("Eating Out", "Living"),
    Leaf("Transport", "Living"), Leaf("Clothing", "Living"),
    Leaf("Household", "Living"),
    Header("Personal"),
    Leaf("Entertainment", "Personal"), Leaf("Subscriptions", "Personal"),
    Leaf("Health", "Personal"), Leaf("Kids", "Personal"), Leaf("Gifts", "Personal"),
    Header("Savings Goals"),
    Leaf("Holiday Fund", "Savings Goals"), Leaf("Emergency Fund", "Savings Goals") >>

\* Decimal("x.yy") given in pence.
Money(pence) == Dec(2, pence)

SALARY == Money(380000)

\* A dict: its keys in insertion order and its values.
Dict(keys, val) == [keys |-> keys, val |-> val]
EmptyDict == Dict(<<>>, <<>>)
DictHas(dct, k) == k \in DOMAIN dct.val
DictPut(dct, k, v) ==
    IF DictHas(dct, k)
    THEN Dict(dct.keys, [dct.val EXCEPT ![k] = v])
    ELSE Dict(Append(dct.keys, k), [x \in DOMAIN dct.val \cup {k} |->
                                      IF x = k THEN v ELSE dct.val[x]])
\* dict.get(k, default)
DictGet(dct, k, default) == IF DictHas(dct, k) THEN dct.val[k] ELSE default
RECURSIVE DictUpdateFrom(_, _, _)
DictUpdateFrom(dct, other, i) ==
    IF i > Len(other.keys) THEN dct
    ELSE DictUpdateFrom(DictPut(dct, other.keys[i], other.val[other.keys[i]]),
                        other, i + 1)
\* dict.update(other)
DictUpdate(dct, other) == DictUpdateFrom(dct, other, 1)
RECURSIVE DictOfPairs(_, _)
DictOfPairs(pairs, i) ==
    IF i = 0 THEN EmptyDict
    ELSE DictPut(DictOfPairs(pairs, i - 1), pairs[i][1], pairs[i][2])
DictLit(pairs) == DictOfPairs(pairs, Len(pairs))

\* base_budget as written in the source.
base_budget_src == DictLit(<<
    <<"Mortgage Payment", Money(89500)>>, <<"Council Tax", Money(16500)>>,
    <<"Energy", Money(14000)>>, <<"Water", Money(4200)>>,
    <<"Internet", Money(3200)>>, <<"Mobile Phones", Money(4500)>>,
    <<"Insurance", Money(8500)>>, <<"Groceries", Money(68600)>>,
    <<"Eating Out", Money(15000)>>, <<"Transport", Money(25000)>>,
    <<"Clothing", Money(7500)>>, <<"Household", Money(5500)>>,
    <<"Entertainment", Money(7500)>>, <<"Subscriptions", Money(3500)>>,
    <<"Health", Money(4000)>>, <<"Kids", Money(17500)>>,
    <<"Gifts", Money(5500)>>, <<"Holiday Fund", Money(50000)>>,
    <<"Emergency Fund", Money(25000)>> >>)

\* The total the startup assertion expects.
ExpectedTotal == Money(375000)

seasonal == DictLit(<<
    <<11, DictLit(<< <<"Energy", Money(18500)>> >>)>>,
    <<12, DictLit(<< <<"Energy", Money(19500)>>, <<"Gifts", Money(20000)>> >>)>>,
    <<1,  DictLit(<< <<"Energy", Money(19000)>> >>)>>,
    <<2,  DictLit(<< <<"Energy", Money(18000)>> >>)>> >>)

grocery_payees == <<"Tesco", "Sainsburys", "Aldi", "Lidl", "M&S Food", "Waitrose", "Co-op">>
eating_payees == <<"Nandos", "Costa", "Pizza Express", "The Crown", "Wagamama", "Greggs", "Pret">>
transport_payees == <<"BP", "Shell", "Trainline", "TfL", "Uber">>
entertainment_payees == <<"Vue Cinema", "Cineworld", "Amazon", "Waterstones">>
clothing_payees == <<"Next", "Primark", "John Lewis", "H&M", "Zara">>
household_payees == <<"B&Q", "Wilko", "IKEA", "Dunelm", "Robert Dyas">>
kids_payees_extra == <<"Smyths Toys", "Clarks", "Book People", "JoJo Maman">>
health_payees == <<"Boots", "Specsavers", "Dentist">>
gifts_payees == <<"Amazon", "John Lewis", "Moonpig", "Not On The High Street">>
sub_items == << <<"Netflix", Money(1099)>>, <<"Spotify", Money(1099)>>,
                <<"Disney+", Money(799)>>, <<"iCloud", Money(299)>> >>

\* months_list: (2025,2) .. (2026,2)
RECURSIVE MonthsFrom(_, _)
MonthsFrom(yr, mo) ==
    IF yr > 2026 THEN <<>>
    ELSE LET rest == IF mo = 12 THEN MonthsFrom(yr + 1, 1) ELSE MonthsFrom(yr, mo + 1)
         IN  IF (yr = 2025 /\ mo < 2) \/ (yr = 2026 /\ mo > 2)
             THEN rest ELSE <<<<yr, mo>>>> \o rest
months_list == MonthsFrom(2025, 1)

\* ------------------------------------------------------------ dates
DateTime(y, mo, dd, h, mi) == [y |-> y, mo |-> mo, d |-> dd, h |-> h, mi |-> mi]
\* datetime ordering
DateKey(dt) == (((dt.y * 12 + dt.mo) * 32 + dt.d) * 24 + dt.h) * 60 + dt.mi
DateLater(a, b) == DateKey(a) > DateKey(b)
\* def iso(dt): "%Y-%m-%dT%H:%M:%SZ" as its zero-padded fields; every
\* datetime of the script has second 0.
iso(dt) == <<dt.y, dt.mo, dt.d, dt.h, dt.mi, 0>>
\* text.startswith(f"{yr}-{mo:02d}")
StartsWithMonth(text, yr, mo) == text[1] = yr /\ text[2] = mo
\* Order of two iso texts as strings (all fields are zero-padded).
RECURSIVE TextLessFrom(_, _, _)
TextLessFrom(a, b, i) ==
    IF i > Len(a) THEN FALSE
    ELSE IF a[i] # b[i] THEN a[i] < b[i] ELSE TextLessFrom(a, b, i + 1)
TextLess(a, b) == TextLessFrom(a, b, 1)
\* calendar.monthrange(y, m)[1]
MonthLength(y, m) ==
    IF m = 2 THEN (IF y % 4 = 0 /\ (y % 100 # 0 \/ y % 400 = 0) THEN 29 ELSE 28)
    ELSE IF m \in {4, 6, 9, 11} THEN 30 ELSE 31
Min(a, b) == IF a < b THEN a ELSE b
Max(a, b) == IF a > b THEN a ELSE b

\* ------------------------------------------------------------ random
\* The generator: x -> (LcgA * x + LcgC) mod One; each draw advances it once
\* and reads the new state.
LcgA == 25173
LcgC == 13849
SeedStep == 7919
Seeds == 0 .. NumSeeds - 1
\* random.seed(s)
SeedState(s) == (s * SeedStep + 42) % One
Nxt(x) == (LcgA * x + LcgC) % One
RECURSIVE After(_, _)
After(x, k) == IF k = 0 THEN x ELSE After(Nxt(x), k - 1)
\* random.random() read from draw x: a float in [0, 1)
Random(x) == Flt(x)
\* random.randint(lo, hi) read from draw x
RandInt(x, lo, hi) == lo + (x * (hi - lo + 1)) \div One
\* random.choice(seq) read from draw x
Choice(x, seq) == seq[1 + (x * Len(seq)) \div One]
\* random.uniform(a, b) read from draw x: a + (b-a) * random()
Uniform(x, a, b) == FAdd(a, FMul(FSub(b, a), Random(x)))
\* def rand_day(y,m,lo,hi), reading the three draws after state x
rand_day(x, y, m, lo, hi) ==
    LET mx == Min(hi, MonthLength(y, m))
        lo2 == Min(lo, mx)
    IN  DateTime(y, m, RandInt(After(x, 1), lo2, mx),
                 RandInt(After(x, 2), 8, 20), RandInt(After(x, 3), 0, 59))
\* def vary(base, pct), reading the draw after state x
vary(x, base, pct) ==
    d(FMul(FloatOfDecimal(base),
           FAdd(FloatLit(0, 1), Uniform(After(x, 1), FSub(FloatLit(0, 0), pct), pct))))

\* ------------------------------------------------------------ state
VARIABLES
    pc,                 \* the statement the script is at
    rng,                \* state of the random generator
    base_budget,        \* the module-level dict base_budget
    month_ix,           \* position of the month loop in months_list
    mb,                 \* the month's budget dict
    loc,                \* locals of the running inner loop: i, n, per
    budget_months, budget_allocations, transactions, payee_tracker,
    payees,             \* the payee list built after the loop
    outfile,            \* the file screenshot-data.json
    printed,            \* standard output: the summary totals printed
    tx_src,             \* history: the value each transaction amount was computed from
    alloc_src           \* history: the value each allocation amount was computed from

vars == <<pc, rng, base_budget, month_ix, mb, loc, budget_months,
          budget_allocations, transactions, payee_tracker, payees, outfile,
          printed, tx_src, alloc_src>>

\* The lists exp, inc and xfr append to, handled together.
Heap(tx, pt, src) == [transactions |-> tx, payee_tracker |-> pt, tx_src |-> src]
heap == Heap(transactions, payee_tracker, tx_src)

Yr == months_list[month_ix][1]
Mo == months_list[month_ix][2]
\* Faulty variant: no month is the current month.
CurNever(yr, mo) == FALSE

\* cur = (yr==2026 and mo==2); md = 14 if cur else 28
Cur(yr, mo) == yr = 2026 /\ mo = 2
Md(yr, mo) == IF Cur(yr, mo) THEN 14 ELSE 28

\* ------------------------------------------------------------ helpers
\* Faulty variant: the last transaction generated wins, whatever its date.
track_last_generated(pt, name, date, cat) ==
    LET p1 == IF DictHas(pt, name) THEN pt
              ELSE DictPut(pt, name, [lastDate |-> date, count |-> 0, category |-> cat])
        e1 == p1.val[name]
    IN  DictPut(p1, name, [lastDate |-> date, count |-> e1.count + 1, category |-> cat])

\* def track(name, date, cat)
track(pt, name, date, cat) ==
    LET p1 == IF DictHas(pt, name) THEN pt
              ELSE DictPut(pt, name, [lastDate |-> date, count |-> 0, category |-> cat])
        e1 == p1.val[name]
        e2 == [e1 EXCEPT !.count = e1.count + 1]
        e3 == IF DateLater(date, e2.lastDate)
              THEN [e2 EXCEPT !.lastDate = date, !.category = cat] ELSE e2
    IN  DictPut(p1, name, e3)

\* def exp(amt,payee,cat,parent,date,acct,memo); src is the value amt came from
exp(h, amt, src, payee, cat, parent, date, acct) ==
    Heap(Append(h.transactions,
                [amount |-> ds(amt), payee |-> payee, memo |-> "", date |-> iso(date),
                 type |-> "Expense", accountName |-> acct, categoryName |-> cat,
                 categoryParent |-> parent, transferToAccountName |-> Absent]),
         track(h.payee_tracker, payee, date, cat),
         Append(h.tx_src, src))

\* def inc(amt,payee,date,acct="Joint Current")
inc(h, amt, payee, date) ==
    Heap(Append(h.transactions,
                [amount |-> ds(amt), payee |-> payee, memo |-> "", date |-> iso(date),
                 type |-> "Income", accountName |-> "Joint Current",
                 categoryName |-> "To Budget", categoryParent |-> Absent,
                 transferToAccountName |-> Absent]),
         track(h.payee_tracker, payee, date, "To Budget"),
         Append(h.tx_src, amt))

\* Faulty variant: the destination is written from the source argument.
xfr_to_source(h, amt, fr, to, date) ==
    Heap(Append(h.transactions,
                [amount |-> ds(amt), payee |-> "Transfer", memo |-> "", date |-> iso(date),
                 type |-> "Transfer", accountName |-> fr, categoryName |-> Absent,
                 categoryParent |-> Absent, transferToAccountName |-> fr]),
         h.payee_tracker,
         Append(h.tx_src, amt))

\* def xfr(amt,fr,to,date)
xfr(h, amt, fr, to, date) ==
    Heap(Append(h.transactions,
                [amount |-> ds(amt), payee |-> "Transfer", memo |-> "", date |-> iso(date),
                 type |-> "Transfer", accountName |-> fr, categoryName |-> Absent,
                 categoryParent |-> Absent, transferToAccountName |-> to]),
         h.payee_tracker,
         Append(h.tx_src, amt))

SetHeap(h) ==
    /\ transactions' = h.transactions
    /\ payee_tracker' = h.payee_tracker
    /\ tx_src' = h.tx_src

\* sum(Decimal values); sum() starts from the int 0.  Decimal addition is
\* exact, so the order of the additions does not matter: the sum is formed
\* by halves.
RECURSIVE SumRange(_, _, _)
SumRange(seq, lo, hi) ==
    IF lo > hi THEN Dec(0, 0)
    ELSE IF lo = hi THEN DecAdd(Dec(0, 0), seq[lo])
    ELSE LET mid == (lo + hi) \div 2
             left == SumRange(seq, lo, mid)
             right == SumRange(seq, mid + 1, hi)
         IN  DecAdd(left, right)
Sum(seq) == SumRange(seq, 1, Len(seq))

\* Decimal(t["amount"]) for t in seq
Amounts(seq) == [i \in 1 .. Len(seq) |-> ParseDecimal(seq[i].amount)]

\* An expense with a random amount in [a, b], a payee drawn from plist and a
\* date in [dlo, dhi]: exp(d(random.uniform(a,b)), random.choice(plist), cat,
\* parent, rand_day(yr,mo,dlo,dhi), acct="Credit Card"), reading five draws
\* after state x.
RandomExp(h, x, a, b, plist, cat, parent, yr, mo, dlo, dhi) ==
    LET v == Uniform(After(x, 1), a, b)
    IN  exp(h, d(v), v, Choice(After(x, 2), plist), cat, parent,
            rand_day(After(x, 2), yr, mo, dlo, dhi), "Credit Card")

\* if random.random() > thr [and cond]: <RandomExp>.  Returns the heap and
\* the generator state.
MaybeExp(h, x, thr, cond, a, b, plist, cat, parent, yr, mo, dlo, dhi) ==
    IF Random(After(x, 1)).m > thr.m /\ cond
    THEN [h |-> RandomExp(h, After(x, 1), a, b, plist, cat, parent, yr, mo, dlo, dhi),
          rng |-> After(x, 6)]
    ELSE [h |-> h, rng |-> After(x, 1)]

\* Float literals: an int n, and n hundredths.
Lit(n) == FloatLit(0, n)
Lit2(n) == FloatLit(2, n)

\* ------------------------------------------------------------ actions
\* A file that does not exist, and one holding a JSON document.
NoFile == [exists |-> FALSE]
FileWith(doc) == [exists |-> TRUE, json |-> doc]

InitWith(bb, seed) ==
    /\ pc = "assert"
    /\ rng = SeedState(seed)
    /\ base_budget = bb
    /\ month_ix = 1
    /\ mb = EmptyDict
    /\ loc = [i |-> 0, n |-> 0, per |-> Lit(0)]
    /\ budget_months = <<>>
    /\ budget_allocations = <<>>
    /\ transactions = <<>>
    /\ payee_tracker = EmptyDict
    /\ payees = <<>>
    /\ outfile = NoFile
    /\ printed = <<>>
    /\ tx_src = <<>>
    /\ alloc_src = <<>>

Init == \E seed \in Seeds : InitWith(base_budget_src, seed)

\* assert sum(base_budget.values()) == Decimal("3750.00")
BudgetTotal(bb) == Sum([i \in 1 .. Len(bb.keys) |-> bb.val[bb.keys[i]]])
\* Decimal == Decimal compares values, not digits.
DecEq(a, b) == a.coef * Pow(10, b.scale) = b.coef * Pow(10, a.scale)
\* Faulty variant: the assertion is not evaluated.
AssertSkipped(bb) == TRUE

\* The condition of the startup assertion.
AssertHolds(bb) == DecEq(BudgetTotal(bb), ExpectedTotal)
\* Line 78: an AssertionError ends the script.
AssertTotal ==
    /\ pc = "assert"
    /\ pc' = IF AssertHolds(base_budget) THEN "budget" ELSE "aborted"
    /\ UNCHANGED <<rng, base_budget, month_ix, mb, loc, budget_months,
                   budget_allocations, transactions, payee_tracker, payees,
                   outfile, printed, tx_src, alloc_src>>

\* Faulty variant: mb = base_budget, so the update writes into base_budget.
MonthBudgetAliased(bb, mo) ==
    LET m == IF DictHas(seasonal, mo) THEN DictUpdate(bb, seasonal.val[mo]) ELSE bb
    IN  [mb |-> m, base |-> m]

\* mb = dict(base_budget); if mo in seasonal: mb.update(seasonal[mo])
\* The result names both dicts as they are afterwards.
MonthBudget(bb, mo) ==
    [mb |-> IF DictHas(seasonal, mo) THEN DictUpdate(bb, seasonal.val[mo]) ELSE bb,
     base |-> bb]

\* Faulty variant: the parent of the first entry that has one, whatever its name.
ParentOfFirst(cn) ==
    categories[CHOOSE i \in 1 .. Len(categories) :
                  /\ categories[i].parentName # Absent
                  /\ \A j \in 1 .. i - 1 : categories[j].parentName = Absent].parentName

\* The parent the allocation loop finds for category name cn, None if none.
RECURSIVE ParentFrom(_, _)
ParentFrom(cn, i) ==
    IF i > Len(categories) THEN Absent
    ELSE IF categories[i].name = cn /\ categories[i].parentName # Absent
         THEN categories[i].parentName ELSE ParentFrom(cn, i + 1)
ParentOf(cn) == ParentFrom(cn, 1)

MonthText(yr, mo) == <<yr, mo, 1, 0, 0, 0>>

\* al = {"budgeted":ds(a),"categoryName":cn,"month":mi}; if p: categoryParent
Allocation(cn, a, yr, mo) ==
    [budgeted |-> ds(a), categoryName |-> cn, month |-> MonthText(yr, mo),
     categoryParent |-> ParentOf(cn)]

\* Lines 129-141: the budget month row, the month's budget, its allocations.
BudgetMonth ==
    /\ pc = "budget"
    /\ LET both == MonthBudget(base_budget, Mo)
           m == both.mb
       IN  /\ mb' = m
           /\ base_budget' = both.base
           /\ budget_months' = Append(budget_months, [month |-> MonthText(Yr, Mo), note |-> ""])
           /\ budget_allocations' = budget_allocations \o
                  [i \in 1 .. Len(m.keys) |-> Allocation(m.keys[i], m.val[m.keys[i]], Yr, Mo)]
           /\ alloc_src' = alloc_src \o [i \in 1 .. Len(m.keys) |-> m.val[m.keys[i]]]
    /\ pc' = "salary"
    /\ UNCHANGED <<rng, month_ix, loc, transactions, payee_tracker, payees,
                   outfile, printed, tx_src>>

\* Faulty variant: the same salary every month.
SalaryFlat(mo) == SALARY

\* sal = SALARY; if mo==6: 4100.00; elif mo==12: 4350.00
SalaryFor(mo) ==
    IF mo = 6 THEN Money(410000) ELSE IF mo = 12 THEN Money(435000) ELSE SALARY

\* Lines 144-148: the salary, dated the 28th of the month before.
Salary ==
    /\ pc = "salary"
    /\ LET sm == IF Mo > 1 THEN Mo - 1 ELSE 12
           sy == IF Mo > 1 THEN Yr ELSE Yr - 1
       IN  SetHeap(inc(heap, SalaryFor(Mo), "Employer - Salary", DateTime(sy, sm, 28, 8, 0)))
    /\ pc' = "bills"
    /\ UNCHANGED <<rng, base_budget, month_ix, mb, loc, budget_months,
                   budget_allocations, payees, outfile, printed, alloc_src>>

\* The float vary() rounds: float(base)*(1+random.uniform(-pct,pct))
VaryFloat(x, base, pct) ==
    FMul(FloatOfDecimal(base),
         FAdd(Lit(1), Uniform(After(x, 1), FSub(Lit(0), pct), pct)))

\* Lines 153-159: the seven fixed bills.
FixedBills ==
    /\ pc = "bills"
    /\ LET md == Md(Yr, Mo)
           ev == VaryFloat(rng, DictGet(mb, "Energy", Money(14000)), Lit2(5))
           h1 == exp(heap, Money(89500), Money(89500), "Nationwide BS",
                     "Mortgage Payment", "Bills", DateTime(Yr, Mo, 1, 7, 0), "Joint Current")
           h2 == exp(h1, Money(16500), Money(16500), "Bristol City Council",
                     "Council Tax", "Bills", DateTime(Yr, Mo, 1, 7, 30), "Joint Current")
           h3 == exp(h2, d(ev), ev, "Octopus Energy", "Energy", "Bills",
                     rand_day(After(rng, 1), Yr, Mo, 3, Min(7, md)), "Joint Current")
           h4 == exp(h3, Money(4200), Money(4200), "Bristol Water", "Water", "Bills",
                     DateTime(Yr, Mo, Min(5, md), 8, 0), "Joint Current")
           h5 == exp(h4, Money(3200), Money(3200), "BT Broadband", "Internet", "Bills",
                     DateTime(Yr, Mo, Min(4, md), 9, 0), "Joint Current")
           h6 == exp(h5, Money(4500), Money(4500), "Three Mobile", "Mobile Phones", "Bills",
                     rand_day(After(rng, 4), Yr, Mo, 8, Min(12, md)), "Joint Current")
           h7 == exp(h6, Money(8500), Money(8500), "Aviva", "Insurance", "Bills",
                     rand_day(After(rng, 7), Yr, Mo, 10, Min(15, md)), "Joint Current")
       IN  SetHeap(h7)
    /\ rng' = After(rng, 10)
    /\ pc' = "groceries"
    /\ UNCHANGED <<base_budget, month_ix, mb, loc, budget_months,
                   budget_allocations, payees, outfile, printed, alloc_src>>

\* n = random.randint(lo,hi) if not cur else k; total = float(budget) *
\* random.uniform(a,b); per = total / n.  Returns the loop locals and the
\* generator state.
SpreadSetup(x, cat, default, nlo, nhi, ncur, a, b) ==
    LET cur == Cur(Yr, Mo)
        x1 == IF cur THEN x ELSE After(x, 1)
        n == IF cur THEN ncur ELSE RandInt(x1, nlo, nhi)
        total == FMul(FloatOfDecimal(DictGet(mb, cat, default)), Uniform(After(x1, 1), a, b))
    IN  [loc |-> [i |-> 0, n |-> n, per |-> FDivInt(total, n)], rng |-> After(x1, 1)]

\* Lines 162-165
GroceriesSetup ==
    /\ pc = "groceries"
    /\ LET s == SpreadSetup(rng, "Groceries", Money(68600), 5, 7, 3, Lit2(88), Lit2(112))
       IN  loc' = s.loc /\ rng' = s.rng
    /\ pc' = "grocery"
    /\ UNCHANGED <<base_budget, month_ix, mb, budget_months, budget_allocations,
                   transactions, payee_tracker, payees, outfile, printed,
                   tx_src, alloc_src>>

\* lo=max(1,1+i*(md//ng)); hi=max(lo,min(lo+(md//ng),md))
GroceryWindow(i, ng, md) ==
    LET lo == Max(1, 1 + i * (md \div ng))
    IN  [lo |-> lo, hi |-> Max(lo, Min(lo + (md \div ng), md))]

\* Lines 166-169: one pass of the grocery loop.
GroceryItem ==
    /\ pc = "grocery"
    /\ LET w == GroceryWindow(loc.i, loc.n, Md(Yr, Mo))
           v == FMul(loc.per, Uniform(After(rng, 1), Lit2(70), Lit2(130)))
       IN  SetHeap(exp(heap, d(v), v, Choice(After(rng, 2), grocery_payees),
                       "Groceries", "Living",
                       rand_day(After(rng, 2), Yr, Mo, w.lo, w.hi), "Credit Card"))
    /\ rng' = After(rng, 5)
    /\ loc' = [loc EXCEPT !.i = loc.i + 1]
    /\ pc' = IF loc.i + 1 < loc.n THEN "grocery" ELSE "eating"
    /\ UNCHANGED <<base_budget, month_ix, mb, budget_months, budget_allocations,
                   payees, outfile, printed, alloc_src>>

\* Lines 172-174
EatingSetup ==
    /\ pc = "eating"
    /\ LET s == SpreadSetup(rng, "Eating Out", Money(15000), 3, 5, 2, Lit2(75), Lit2(125))
       IN  loc' = s.loc /\ rng' = s.rng
    /\ pc' = "meal"
    /\ UNCHANGED <<base_budget, month_ix, mb, budget_months, budget_allocations,
                   transactions, payee_tracker, payees, outfile, printed,
                   tx_src, alloc_src>>

\* Lines 175-177: one pass of the eating-out loop.
EatingItem ==
    /\ pc = "meal"
    /\ LET v == FMul(loc.per, Uniform(After(rng, 1), Lit2(50), Lit2(150)))
       IN  SetHeap(exp(heap, d(v), v, Choice(After(rng, 2), eating_payees),
                       "Eating Out", "Living",
                       rand_day(After(rng, 2), Yr, Mo, 1, Md(Yr, Mo)), "Credit Card"))
    /\ rng' = After(rng, 5)
    /\ loc' = [loc EXCEPT !.i = loc.i + 1]
    /\ pc' = IF loc.i + 1 < loc.n THEN "meal" ELSE "transport"
    /\ UNCHANGED <<base_budget, month_ix, mb, budget_months, budget_allocations,
                   payees, outfile, printed, alloc_src>>

\* Lines 180-182
TransportSetup ==
    /\ pc = "transport"
    /\ LET s == SpreadSetup(rng, "Transport", Money(25000), 3, 5, 2, Lit2(70), Lit2(120))
       IN  loc' = s.loc /\ rng' = s.rng
    /\ pc' = "trip"
    /\ UNCHANGED <<base_budget, month_ix, mb, budget_months, budget_allocations,
                   transactions, payee_tracker, payees, outfile, printed,
                   tx_src, alloc_src>>

\* Lines 183-186: one pass of the transport loop.
TransportItem ==
    /\ pc = "trip"
    /\ LET p == Choice(After(rng, 1), transport_payees)
           acct == IF Random(After(rng, 2)).m > Lit2(30).m
                   THEN "Credit Card" ELSE "Joint Current"
           v == FMul(loc.per, Uniform(After(rng, 3), Lit2(50), Lit2(150)))
       IN  SetHeap(exp(heap, d(v), v, p, "Transport", "Living",
                       rand_day(After(rng, 3), Yr, Mo, 1, Md(Yr, Mo)), acct))
    /\ rng' = After(rng, 6)
    /\ loc' = IF loc.i + 1 < loc.n THEN [loc EXCEPT !.i = loc.i + 1]
              ELSE [i |-> 0, n |-> Len(sub_items), per |-> Lit(0)]
    /\ pc' = IF loc.i + 1 < loc.n THEN "trip" ELSE "subs"
    /\ UNCHANGED <<base_budget, month_ix, mb, budget_months, budget_allocations,
                   payees, outfile, printed, alloc_src>>

\* Lines 189-191: one pass of the subscription loop.
Subscription ==
    /\ pc = "subs"
    /\ LET sn == sub_items[loc.i + 1][1]
           sa == sub_items[loc.i + 1][2]
           md == Md(Yr, Mo)
       IN  IF Cur(Yr, Mo) /\ sn = "Disney+"
           THEN UNCHANGED <<transactions, payee_tracker, tx_src, rng>>
           ELSE /\ SetHeap(exp(heap, sa, sa, sn, "Subscriptions", "Personal",
                               rand_day(rng, Yr, Mo, 1, Min(10, md)), "Credit Card"))
                /\ rng' = After(rng, 3)
    /\ loc' = [loc EXCEPT !.i = loc.i + 1]
    /\ pc' = IF loc.i + 1 < loc.n THEN "subs" ELSE "entertainment"
    /\ UNCHANGED <<base_budget, month_ix, mb, budget_months, budget_allocations,
                   payees, outfile, printed, alloc_src>>

\* Lines 194-196
Entertainment ==
    /\ pc = "entertainment"
    /\ LET r == MaybeExp(heap, rng, Lit2(15), Md(Yr, Mo) > 7, Lit(20), Lit(80),
                         entertainment_payees, "Entertainment", "Personal", Yr, Mo, 5, Md(Yr, Mo))
       IN  SetHeap(r.h) /\ rng' = r.rng
    /\ pc' = "clothing"
    /\ UNCHANGED <<base_budget, month_ix, mb, loc, budget_months,
                   budget_allocations, payees, outfile, printed, alloc_src>>

\* Lines 199-201
Clothing ==
    /\ pc = "clothing"
    /\ LET r == MaybeExp(heap, rng, Lit2(40), TRUE, Lit(40), Lit(120),
                         clothing_payees, "Clothing", "Living", Yr, Mo, 3, Md(Yr, Mo))
       IN  SetHeap(r.h) /\ rng' = r.rng
    /\ pc' = "household"
    /\ UNCHANGED <<base_budget, month_ix, mb, loc, budget_months,
                   budget_allocations, payees, outfile, printed, alloc_src>>

\* Lines 204-206
Household ==
    /\ pc = "household"
    /\ LET r == MaybeExp(heap, rng, Lit2(45), TRUE, Lit(20), Lit(75),
                         household_payees, "Household", "Living", Yr, Mo, 3, Md(Yr, Mo))
       IN  SetHeap(r.h) /\ rng' = r.rng
    /\ pc' = "kids"
    /\ UNCHANGED <<base_budget, month_ix, mb, loc, budget_months,
                   budget_allocations, payees, outfile, printed, alloc_src>>

\* Lines 209-212: the nursery fee, then perhaps an extra.
Kids ==
    /\ pc = "kids"
    /\ LET md == Md(Yr, Mo)
           v == Uniform(After(rng, 1), Lit(70), Lit(95))
           h1 == exp(heap, d(v), v, "Nursery Fees", "Kids", "Personal",
                     rand_day(After(rng, 1), Yr, Mo, 1, Min(5, md)), "Joint Current")
           r == MaybeExp(h1, After(rng, 4), Lit2(35), TRUE, Lit(15), Lit(65),
                         kids_payees_extra, "Kids", "Personal", Yr, Mo, 5, md)
       IN  SetHeap(r.h) /\ rng' = r.rng
    /\ pc' = "health"
    /\ UNCHANGED <<base_budget, month_ix, mb, loc, budget_months,
                   budget_allocations, payees, outfile, printed, alloc_src>>

\* Lines 215-217
Health ==
    /\ pc = "health"
    /\ LET r == MaybeExp(heap, rng, Lit2(60), TRUE, Lit(12), Lit(55),
                         health_payees, "Health", "Personal", Yr, Mo, 1, Md(Yr, Mo))
       IN  SetHeap(r.h) /\ rng' = r.rng
    /\ pc' = IF Mo = 12 THEN "gift" ELSE "gifts"
    /\ loc' = [i |-> 0, n |-> 4, per |-> Lit(0)]
    /\ UNCHANGED <<base_budget, month_ix, mb, budget_months,
                   budget_allocations, payees, outfile, printed, alloc_src>>

\* Lines 220-223: one of December's four gifts.
DecemberGift ==
    /\ pc = "gift"
    /\ SetHeap(RandomExp(heap, rng, Lit(25), Lit(70), gifts_payees, "Gifts", "Personal",
                         Yr, Mo, 1, 20))
    /\ rng' = After(rng, 5)
    /\ loc' = [loc EXCEPT !.i = loc.i + 1]
    /\ pc' = IF loc.i + 1 < loc.n THEN "gift" ELSE "transfers"
    /\ UNCHANGED <<base_budget, month_ix, mb, budget_months, budget_allocations,
                   payees, outfile, printed, alloc_src>>

\* Lines 224-226
OtherGift ==
    /\ pc = "gifts"
    /\ LET r == MaybeExp(heap, rng, Lit2(55), TRUE, Lit(15), Lit(55),
                         gifts_payees, "Gifts", "Personal", Yr, Mo, 1, Md(Yr, Mo))
       IN  SetHeap(r.h) /\ rng' = r.rng
    /\ pc' = "transfers"
    /\ UNCHANGED <<base_budget, month_ix, mb, loc, budget_months,
                   budget_allocations, payees, outfile, printed, alloc_src>>

\* Lines 229-230
Transfers ==
    /\ pc = "transfers"
    /\ LET md == Md(Yr, Mo)
           h1 == xfr(heap, Money(20000), "Joint Current", "Savings",
                     DateTime(Yr, Mo, Min(2, md), 9, 0))
           h2 == xfr(h1, Money(10000), "Joint Current", "ISA",
                     DateTime(Yr, Mo, Min(2, md), 9, 30))
       IN  SetHeap(h2)
    /\ pc' = "settle"
    /\ UNCHANGED <<rng, base_budget, month_ix, mb, loc, budget_months,
                   budget_allocations, payees, outfile, printed, alloc_src>>

\* Faulty variant: the date test is missing.
IsCardExpenseAnyMonth(t, yr, mo) ==
    /\ t.accountName = "Credit Card"
    /\ t.type = "Expense"

\* The transactions the settlement sums (lines 232-233).
IsCardExpenseOf(t, yr, mo) ==
    /\ t.accountName = "Credit Card"
    /\ StartsWithMonth(t.date, yr, mo)
    /\ t.type = "Expense"
CardSpend(txs, yr, mo) ==
    LET Test(t) == IsCardExpenseOf(t, yr, mo)
    IN  Sum(Amounts(SelectSeq(txs, Test)))

\* datetime(yr,mo,min(20,md),10,0)
SettleDate(yr, mo) == DateTime(yr, mo, Min(20, Md(yr, mo)), 10, 0)

\* Lines 232-234: the credit-card settlement; then the next month or the end
\* of the loop.
Settle ==
    /\ pc = "settle"
    /\ LET cc == CardSpend(transactions, Yr, Mo)
       IN  IF cc.coef > 0
           THEN SetHeap(xfr(heap, cc, "Joint Current", "Credit Card", SettleDate(Yr, Mo)))
           ELSE UNCHANGED <<transactions, payee_tracker, tx_src>>
    /\ IF month_ix < Len(months_list)
       THEN month_ix' = month_ix + 1 /\ pc' = "budget"
       ELSE month_ix' = month_ix /\ pc' = "payees"
    /\ UNCHANGED <<rng, base_budget, mb, loc, budget_months, budget_allocations,
                   payees, outfile, printed, alloc_src>>

\* Lines 236-240
PayeeRecord(name, info) ==
    [name |-> name, lastUsedDate |-> iso(info.lastDate), useCount |-> info.count,
     lastUsedCategoryName |-> IF info.category # "" THEN info.category ELSE Absent]
BuildPayees ==
    /\ pc = "payees"
    /\ payees' = [i \in 1 .. Len(payee_tracker.keys) |->
                    PayeeRecord(payee_tracker.keys[i],
                                payee_tracker.val[payee_tracker.keys[i]])]
    /\ pc' = "export"
    /\ UNCHANGED <<rng, base_budget, month_ix, mb, loc, budget_months,
                   budget_allocations, transactions, payee_tracker, outfile,
                   printed, tx_src, alloc_src>>

\* Lines 242-247: the export object, written to screenshot-data.json.
Export ==
    /\ pc = "export"
    /\ outfile' = FileWith(
           [exportDate |-> <<2026, 2, 15, 12, 0, 0>>, appVersion |-> "1.0",
            accounts |-> accounts, transactions |-> transactions,
            categories |-> categories, budgetMonths |-> budget_months,
            budgetAllocations |-> budget_allocations, payees |-> payees])
    /\ pc' = "summary"
    /\ UNCHANGED <<rng, base_budget, month_ix, mb, loc, budget_months,
                   budget_allocations, transactions, payee_tracker, payees,
                   printed, tx_src, alloc_src>>

\* Lines 266-270: the totals of the summary.
DecSub(a, b) == DecAdd(a, Dec(b.scale, -b.coef))
Budgeted(al) == ParseDecimal(al.budgeted)
IsIncome(t) == t.type = "Income"
IsExpense(t) == t.type = "Expense"
TotalIncome(txs) == Sum(Amounts(SelectSeq(txs, IsIncome)))
TotalBudgeted(als) == Sum([i \in 1 .. Len(als) |-> Budgeted(als[i])])
TotalExpenses(txs) == Sum(Amounts(SelectSeq(txs, IsExpense)))
Summary ==
    /\ pc = "summary"
    /\ LET ti == TotalIncome(transactions)
           tb == TotalBudgeted(budget_allocations)
           te == TotalExpenses(transactions)
       IN  printed' = Append(printed,
                      [count |-> Len(transactions), income |-> ti, budgeted |-> tb,
                       expenses |-> te, remaining |-> DecSub(ti, tb),
                       surplus |-> DecSub(tb, te)])
    /\ pc' = "done"
    /\ UNCHANGED <<rng, base_budget, month_ix, mb, loc, budget_months,
                   budget_allocations, transactions, payee_tracker, payees,
                   outfile, tx_src, alloc_src>>

Next ==
    \/ AssertTotal \/ BudgetMonth \/ Salary \/ FixedBills
    \/ GroceriesSetup \/ GroceryItem \/ EatingSetup \/ EatingItem
    \/ TransportSetup \/ TransportItem \/ Subscription
    \/ Entertainment \/ Clothing \/ Household \/ Kids \/ Health
    \/ DecemberGift \/ OtherGift \/ Transfers \/ Settle
    \/ BuildPayees \/ Export \/ Summary

Spec == Init /\ [][Next]_vars

\* ------------------------------------------------------------ edited tables
\* Size, in pence, of a hand edit of one base_budget entry.
EditPence == 100

\* base_budget with entry a changed by da and entry b by db.
Edited(bb, e) ==
    LET b1 == DictPut(bb, e.a, Money(bb.val[e.a].coef + e.da))
    IN  DictPut(b1, e.b, Money(b1.val[e.b].coef + e.db))

BudgetNames == {base_budget_src.keys[i] : i \in 1 .. Len(base_budget_src.keys)}
\* One value changed and nothing else.
SingleEdits ==
    {[a |-> c, da |-> dlt, b |-> c, db |-> 0] :
        c \in BudgetNames, dlt \in {-EditPence, EditPence}}
\* One value changed and another changed back by as much.
PairedEdits ==
    {[a |-> "Groceries", da |-> EditPence, b |-> "Holiday Fund", db |-> -EditPence]}
NoEdit == [a |-> "Energy", da |-> 0, b |-> "Energy", db |-> 0]
Edits == SingleEdits \cup PairedEdits \cup {NoEdit}

\* The script run on a source whose base_budget was edited by hand.
InitEdited ==
    \E seed \in Seeds, e \in Edits : InitWith(Edited(base_budget_src, e), seed)
SpecEdited == InitEdited /\ [][Next]_vars

\* ------------------------------------------------------------ properties
TxIx == 1 .. Len(transactions)
MonthIx == 1 .. Len(months_list)
InMonth(text, k) == StartsWithMonth(text, months_list[k][1], months_list[k][2])
LoopOver == pc \in {"payees", "export", "summary", "done"}
\* Month k's pass of the loop has ended.
Generated(k) == k < month_ix \/ LoopOver

TxPence(i) == transactions[i].amount.coef
RECURSIVE PenceOver(_)
\* Sum of the amounts, in pence, of the transactions with index in S.
PenceOver(S) ==
    IF S = {} THEN 0
    ELSE LET i == CHOOSE j \in S : TRUE IN TxPence(i) + PenceOver(S \ {i})

IsSettlement(t) ==
    /\ t.type = "Transfer"
    /\ t.accountName = "Joint Current"
    /\ t.transferToAccountName = "Credit Card"
SettlementsOf(k) == {i \in TxIx : IsSettlement(transactions[i]) /\ InMonth(transactions[i].date, k)}
CardExpensesOf(k) ==
    {i \in TxIx : /\ transactions[i].type = "Expense"
                  /\ transactions[i].accountName = "Credit Card"
                  /\ InMonth(transactions[i].date, k)}

\* C1: in every covered month there is at most one transfer from Joint
\* Current to Credit Card, there is one only if the month has a Credit Card
\* expense, and its amount is exactly the sum of the serialized amounts of
\* the Credit Card expenses dated in that month.
C1_SettlementIsMonthsCardSpend ==
    \A k \in MonthIx :
        LET S == SettlementsOf(k)
            E == CardExpensesOf(k)
        IN  /\ Cardinality(S) <= 1
            /\ S # {} => E # {}
            /\ \A i \in S : /\ transactions[i].amount.scale = 2
                            /\ \A j \in E : transactions[j].amount.scale = 2
                            /\ TxPence(i) = PenceOver(E)
C1_Witness ==
    /\ month_ix >= 3
    /\ \A k \in 1 .. 2 : SettlementsOf(k) # {} /\ Cardinality(CardExpensesOf(k)) >= 10

PayeeIx(name) == {i \in TxIx : transactions[i].payee = name}
\* The transactions of S that no transaction of S is dated after.
LatestOf(S) == {i \in S : \A j \in S : ~TextLess(transactions[i].date, transactions[j].date)}
MinOf(S) == CHOOSE i \in S : \A j \in S : i <= j

\* C2: at any point of the run, each tracked payee's count is the number of
\* transactions carrying that payee name, its last-used date is the latest
\* date among them, and its category is that of the first generated
\* transaction among those with the latest date (a later transaction
\* replaces the category only if its date is strictly later); the payee
\* list built at the end carries exactly these values.
C2_PayeeTrackerMatchesTransactions ==
    /\ \A name \in DOMAIN payee_tracker.val :
        LET S == PayeeIx(name)
            info == payee_tracker.val[name]
            L == LatestOf(S)
        IN  /\ info.count = Cardinality(S)
            /\ L # {}
            /\ \A i \in L : transactions[i].date = iso(info.lastDate)
            /\ info.category = transactions[MinOf(L)].categoryName
    /\ pc \in {"export", "summary", "done"} =>
        /\ {payees[i].name : i \in 1 .. Len(payees)} = DOMAIN payee_tracker.val
        /\ Len(payees) = Cardinality(DOMAIN payee_tracker.val)
        /\ \A i \in 1 .. Len(payees) :
            LET info == payee_tracker.val[payees[i].name]
            IN  /\ payees[i].useCount = info.count
                /\ payees[i].lastUsedDate = iso(info.lastDate)
                /\ payees[i].lastUsedCategoryName = info.category
\* A payee used under two categories whose later generated transaction is
\* dated earlier, so the stored category is not the one generated last.
C2_Witness ==
    /\ pc = "done"
    /\ \E p \in 1 .. Len(payees) :
        \E i, j \in PayeeIx(payees[p].name) :
            /\ i < j
            /\ transactions[i].categoryName # transactions[j].categoryName
            /\ TextLess(transactions[j].date, transactions[i].date)
            /\ transactions[i].date = payees[p].lastUsedDate
            /\ payees[p].lastUsedCategoryName = transactions[i].categoryName

CatIx == 1 .. Len(categories)
\* (name, parent) of the categories that are not headers and have a parent.
LeafPairs ==
    {<<categories[i].name, categories[i].parentName>> :
        i \in {j \in CatIx : ~categories[j].isHeader /\ categories[j].parentName # Absent}}

\* C3: every allocation and every Expense transaction names, with its
\* parent, a non-header category of the table having exactly that parent.
C3_CategoriesExistWithParent ==
    /\ \A i \in 1 .. Len(budget_allocations) :
        <<budget_allocations[i].categoryName, budget_allocations[i].categoryParent>>
            \in LeafPairs
    /\ \A i \in TxIx :
        transactions[i].type = "Expense" =>
            <<transactions[i].categoryName, transactions[i].categoryParent>> \in LeafPairs
C3_Witness ==
    /\ pc = "done"
    /\ Len(budget_allocations) = 19 * 13
    /\ Cardinality({transactions[i].categoryName :
                       i \in {j \in TxIx : transactions[j].type = "Expense"}}) = 17

AccountNames == {accounts[i].name : i \in 1 .. Len(accounts)}
TransferIx == {i \in TxIx : transactions[i].type = "Transfer"}

\* C5: every Transfer has different source and destination accounts, both
\* of them names of the accounts table.
C5_TransfersBetweenKnownAccounts ==
    \A i \in TransferIx :
        /\ transactions[i].accountName # transactions[i].transferToAccountName
        /\ transactions[i].accountName \in AccountNames
        /\ transactions[i].transferToAccountName \in AccountNames
C5_Witness ==
    /\ pc = "done"
    /\ {transactions[i].transferToAccountName : i \in TransferIx}
           = {"Savings", "ISA", "Credit Card"}

CurIx == CHOOSE k \in MonthIx : months_list[k] = <<2026, 2>>
CountIn(k, cat) ==
    Cardinality({i \in TxIx : /\ transactions[i].categoryName = cat
                              /\ InMonth(transactions[i].date, k)})
DisneyIn(k) ==
    Cardinality({i \in TxIx : /\ transactions[i].categoryName = "Subscriptions"
                              /\ transactions[i].payee = "Disney+"
                              /\ InMonth(transactions[i].date, k)})

\* C6: in the finished list February 2026 has strictly fewer Groceries and
\* strictly fewer Eating Out transactions than each earlier month and no
\* Disney+ subscription, while each earlier month has exactly one.
C6_CurrentMonthIsPartial ==
    LoopOver =>
        /\ DisneyIn(CurIx) = 0
        /\ \A k \in MonthIx \ {CurIx} :
            /\ CountIn(CurIx, "Groceries") < CountIn(k, "Groceries")
            /\ CountIn(CurIx, "Eating Out") < CountIn(k, "Eating Out")
            /\ DisneyIn(k) = 1
C6_Witness ==
    /\ pc = "done"
    /\ CountIn(CurIx, "Groceries") = 3
    /\ CountIn(CurIx, "Eating Out") = 2
    /\ \E k \in MonthIx : CountIn(k, "Groceries") = 5 /\ CountIn(k, "Eating Out") = 3

\* v rounded half-up to whole pence, computed on the value itself.
ExactHalfUpPence(v) ==
    IF v.t = "float"
    THEN (v.m \div One) * 100 + (((v.m % One) * 200 + One) \div (2 * One))
    ELSE IF v.scale <= 2 THEN v.coef * Pow(10, 2 - v.scale)
    ELSE (2 * v.coef + Pow(10, v.scale - 2)) \div (2 * Pow(10, v.scale - 2))

\* The shortest decimal text of float v is a half-penny lying above v: the
\* three-digit decimal nearest to v ends in 5, lies above v and reads back
\* as v (no shorter decimal then does, two digits being 0.005 away).
TextIsHalfPennyAbove(v) ==
    LET f == v.m % One
        cf == NearestFrac(f, 3)
    IN  /\ cf % 10 = 5
        /\ cf * One > f * 1000
        /\ ReadsBack(v.m, f, cf, 3)

ExactlyRounded(a, v) == a.t = "str" /\ a.scale = 2 /\ a.coef = ExactHalfUpPence(v)
AllocIx == 1 .. Len(budget_allocations)

\* C7 as claimed: every serialized amount has two decimals and is the
\* computed value rounded half-up to two places.
C7_AmountsAreValueRoundedHalfUp ==
    /\ \A i \in TxIx : ExactlyRounded(transactions[i].amount, tx_src[i])
    /\ \A i \in AllocIx : ExactlyRounded(budget_allocations[i].budgeted, alloc_src[i])

RoundedFromText(a, v) ==
    /\ a.t = "str"
    /\ a.scale = 2
    /\ a.coef = IF v.t = "float" /\ TextIsHalfPennyAbove(v)
                THEN ExactHalfUpPence(v) + 1 ELSE ExactHalfUpPence(v)

\* C7 amended: every serialized amount has two decimals; an amount computed
\* as a Decimal is that value rounded half-up, the settlement sum is
\* serialized unchanged, and an amount computed as a float is the float
\* rounded half-up except when the float's shortest decimal text is a
\* half-penny lying above the float: then the text is what is rounded, and
\* the amount is one penny higher.
C7_AmountsAreTextRoundedHalfUp ==
    /\ \A i \in TxIx :
        /\ RoundedFromText(transactions[i].amount, tx_src[i])
        /\ IsSettlement(transactions[i]) =>
              /\ tx_src[i].t = "Decimal" /\ tx_src[i].scale = 2
              /\ transactions[i].amount.coef = tx_src[i].coef
    /\ \A i \in AllocIx :
        /\ alloc_src[i].t = "Decimal"
        /\ RoundedFromText(budget_allocations[i].budgeted, alloc_src[i])
\* A float amount just below a half-penny was serialized a penny higher,
\* and a settlement was serialized.
C7_Witness ==
    /\ \E i \in TxIx : /\ tx_src[i].t = "float"
                       /\ transactions[i].amount.coef = ExactHalfUpPence(tx_src[i]) + 1
    /\ \E i \in TxIx : IsSettlement(transactions[i])

\* C8 as claimed: a month's settlement is appended after the month's Credit
\* Card expenses, lies in the same month, and is dated no earlier than any
\* of the expenses it pays off.
C8_SettlementNotBeforeItsExpenses ==
    \A k \in MonthIx :
        \A s \in SettlementsOf(k) :
            \A e \in CardExpensesOf(k) :
                /\ e < s
                /\ ~TextLess(transactions[s].date, transactions[e].date)

\* The budget of category cn in month number mo: the override or the base.
OverrideOrBase(mo, cn) ==
    IF DictHas(seasonal, mo) /\ DictHas(seasonal.val[mo], cn)
    THEN seasonal.val[mo].val[cn] ELSE base_budget_src.val[cn]
HeaderNames == {categories[i].name : i \in {j \in CatIx : categories[j].isHeader}}
AllocsOf(k) ==
    {i \in AllocIx : budget_allocations[i].month
                        = MonthText(months_list[k][1], months_list[k][2])}
MonthIxOf(text) == CHOOSE k \in MonthIx : InMonth(text, k)

\* C9: each month begun has one budget month row and 19 allocations, one per
\* base-budget category and none for a header or To Budget; each amount is
\* the seasonal override of its month when there is one and the base budget
\* otherwise; base_budget itself never changes; the month's Energy bill is
\* within 5% of the month's Energy budget.
C9_AllocationsFollowOverrides ==
    /\ base_budget = base_budget_src
    /\ Len(budget_months) <= Len(months_list)
    /\ LoopOver => Len(budget_months) = 13
    /\ \A k \in MonthIx : Generated(k) => k <= Len(budget_months)
    /\ Len(budget_allocations) = 19 * Len(budget_months)
    /\ \A k \in 1 .. Len(budget_months) :
        LET A == AllocsOf(k)
            mo == months_list[k][2]
        IN  /\ budget_months[k].month = MonthText(months_list[k][1], mo)
            /\ A = (19 * (k - 1) + 1) .. (19 * k)
            /\ {budget_allocations[i].categoryName : i \in A} = BudgetNames
            /\ \A i \in A :
                LET cn == budget_allocations[i].categoryName
                IN  /\ cn \notin HeaderNames \cup {"To Budget"}
                    /\ budget_allocations[i].budgeted.scale = 2
                    /\ budget_allocations[i].budgeted.coef = OverrideOrBase(mo, cn).coef
    /\ \A i \in TxIx :
        transactions[i].type = "Expense" /\ transactions[i].categoryName = "Energy" =>
            LET E == OverrideOrBase(transactions[i].date[2], "Energy").coef
            IN  Abs(TxPence(i) - E) * 20 <= E
\* A month without override (March) generated after one with (February),
\* and December with its two overrides.
C9_Witness ==
    /\ pc = "done"
    /\ \E i \in AllocsOf(1), j \in AllocsOf(2), g \in AllocsOf(11) :
        /\ budget_allocations[i].categoryName = "Energy"
        /\ budget_allocations[i].budgeted.coef = 18000
        /\ budget_allocations[j].categoryName = "Energy"
        /\ budget_allocations[j].budgeted.coef = 14000
        /\ budget_allocations[g].categoryName = "Gifts"
        /\ budget_allocations[g].budgeted.coef = 20000

IncomeIx == {i \in TxIx : transactions[i].type = "Income"}
\* The salary generated in month k's pass: the k-th Income transaction.
SalaryIxIn(I, k) == CHOOSE i \in I : Cardinality({j \in I : j <= i}) = k
RECURSIVE AllocPenceOver(_)
AllocPenceOver(S) ==
    IF S = {} THEN 0
    ELSE LET i == CHOOSE j \in S : TRUE
         IN  budget_allocations[i].budgeted.coef + AllocPenceOver(S \ {i})
\* Salary of month k minus the month's allocations, in pence, for each
\* month whose salary has been generated.
MonthSurplus ==
    LET I == IncomeIx
    IN  [k \in 1 .. Cardinality(I) |->
            TxPence(SalaryIxIn(I, k)) - AllocPenceOver(AllocsOf(k))]
\* Income minus budgeted over the first n months, given each month's surplus.
RECURSIVE SurplusUpTo(_, _)
SurplusUpTo(surplus, n) == IF n = 0 THEN 0 ELSE surplus[n] + SurplusUpTo(surplus, n - 1)

PlainMonths == {3, 4, 5, 7, 8, 9, 10}
SurplusOfMonth(mo) ==
    IF mo \in PlainMonths THEN 5000
    ELSE IF mo = 6 THEN 35000 ELSE IF mo = 12 THEN 40000
    ELSE IF mo = 11 THEN 500 ELSE IF mo = 1 THEN 0 ELSE 1000

RECURSIVE BudgetPenceOver(_, _)
BudgetPenceOver(bb, S) ==
    IF S = {} THEN 0
    ELSE LET c == CHOOSE x \in S : TRUE
         IN  bb.val[c].coef + BudgetPenceOver(bb, S \ {c})
TotalIsExpected == BudgetPenceOver(base_budget, DOMAIN base_budget.val) = 375000
NothingGenerated ==
    /\ budget_months = <<>> /\ budget_allocations = <<>> /\ transactions = <<>>
    /\ payee_tracker = EmptyDict /\ payees = <<>> /\ outfile = NoFile
    /\ printed = <<>>
CompleteFixture ==
    /\ Len(outfile.json.budgetMonths) = 13
    /\ Len(outfile.json.budgetAllocations) = 19 * 13
    /\ outfile.json.transactions = transactions
    /\ \A k \in MonthIx : CardExpensesOf(k) # {} /\ SettlementsOf(k) # {}
    /\ outfile.json.payees # <<>>
    /\ Len(outfile.json.payees) = Cardinality(DOMAIN payee_tracker.val)
\* The statements of the script: at each of them one action can run.
Statements ==
    {"assert", "budget", "salary", "bills", "groceries", "grocery", "eating",
     "meal", "transport", "trip", "subs", "entertainment", "clothing",
     "household", "kids", "health", "gift", "gifts", "transfers", "settle",
     "payees", "export", "summary"}

\* C4: with a base budget total other than 3750.00 the script stops at the
\* assertion with nothing generated and no file written; with the total
\* 3750.00 it never aborts and is always at a statement that runs or at its
\* end; at its end the file is written, and the file, once written, holds
\* the complete fixture.
C4_AssertionGuardsTheRun ==
    /\ ~TotalIsExpected => pc \in {"assert", "aborted"} /\ NothingGenerated
    /\ pc = "aborted" => ~TotalIsExpected
    /\ TotalIsExpected => pc \in Statements \cup {"done"}
    /\ pc = "done" => outfile.exists
    /\ outfile.exists => CompleteFixture
    /\ ~outfile.exists => outfile = NoFile
C4_Witness == pc = "aborted" /\ ~TotalIsExpected /\ NothingGenerated

=============================================================================
